---------------------------- MODULE Spec2Model ----------------------------
(***************************************************************************)
(* A model of qualipy.py: the Qualtrics v3 API client (class Qualtrics).   *)
(*                                                                         *)
(* Python strings are sequences of one-character strings, so that          *)
(* indexing (s[-1]), concatenation (+) and str.replace are modelled by     *)
(* what they do.  Python values of other types carry their type name.      *)
(***************************************************************************)
EXTENDS Integers, Sequences, FiniteSets, TLC

VARIABLES
    api_token_header,        \* self.__api_token_header
    project_name,            \* self.__project_name
    base_url_arg,            \* argument base_url of __init__
    base_url,                \* self.__base_url
    path_to_output_files,    \* self.__path_to_output_files
    use_timestamps,          \* self.__use_timestamps
    dirs,                    \* the directories that exist on disk
    files,                   \* the regular files on disk: path -> content
    now,                     \* the wall clock, seconds after the first instant
    calls,                   \* how many public calls the caller has made
    op,                      \* the public method the caller invoked
    pc,                      \* the position inside the running call
    survey_name,             \* argument survey_name
    write_to_disk,           \* argument write_to_disk
    get_survey,              \* argument get_survey
    max_wait_ms,             \* argument max_wait_ms
    sleep_ms,                \* argument sleep_ms
    export_response_handle,  \* local of get_responseexports: the POST's response
    sleep_counter_ms,        \* local of get_responseexports
    export_status_url,       \* local of get_responseexports
    response_status_json,    \* local of get_responseexports: last status body
    r_content,               \* local of get_responseexports: r.content
    response_data_json,      \* local: the parsed 'responses' / survey 'result'
    filename,                \* local of get_responseexports
    full_file_path,          \* argument of write_json_to_disk
    response_data,           \* local of get_survey: the body the GET returned
    json_data,               \* argument of create_df_from_api_data / write_json_to_disk
    dataframe,               \* what create_df_from_api_data gave
    dataframe2,              \* what it gave when applied to its own output
    status_gets,             \* status GETs issued by the running call
    events,                  \* outbound requests, sleeps and disk writes of the call
    built,                   \* the paths setup_output_filename has returned so far
    outcome                  \* how the last call ended

vars == << api_token_header, project_name, base_url_arg, base_url,
           path_to_output_files,
           use_timestamps, dirs, files, now, calls, op, pc, survey_name,
           write_to_disk, get_survey, max_wait_ms, sleep_ms,
           export_response_handle, sleep_counter_ms,
           export_status_url, response_status_json, r_content,
           response_data_json, filename, full_file_path, json_data, dataframe, dataframe2,
           status_gets, events, built, response_data, outcome >>

clientVars == << api_token_header, project_name, base_url_arg, base_url,
                use_timestamps >>
diskVars == << dirs, files >>
argVars == << survey_name, write_to_disk, get_survey, max_wait_ms, sleep_ms >>
exportVars == << export_response_handle, sleep_counter_ms, export_status_url,
                 response_status_json,
                 r_content, response_data_json, filename, status_gets >>
frameVars == << json_data, dataframe, dataframe2 >>

-----------------------------------------------------------------------------
(* Bounds of the model *)

MaxRecords == 3      \* longest list of response records given to the materializer
MaxWaitMs == 1       \* largest max_wait_ms the caller passes
MaxSleepMs == 1      \* largest sleep_ms the caller passes
MaxCalls == 2        \* public calls made on one client
MaxTicks == 1        \* seconds the clock advances
MaxTableRows == 2    \* most rows of a table given to the materializer

-----------------------------------------------------------------------------
(* Python values *)

Str(s) == [t |-> "str", v |-> s]
Num == [t |-> "int", v |-> <<"1">>]
NaN == [t |-> "nan", v |-> <<>>]
Missing == [t |-> "missing", v |-> <<>>]     \* key not in the dict

EmptyStr == <<>>
Space == <<" ">>
SEP == "/"                                   \* os.path.sep

\* s[-1] != c for a non-empty string s
LastCharIsNot(s, c) == s[Len(s)] # c

\* str.replace('', new): new goes in front of every character and at the end
RECURSIVE ReplaceEmptyPattern(_, _)
ReplaceEmptyPattern(s, new) ==
    IF s = <<>> THEN new
    ELSE new \o <<Head(s)>> \o ReplaceEmptyPattern(Tail(s), new)

-----------------------------------------------------------------------------
(* Tables (pandas.DataFrame): column labels and rows of cells *)

Q1 == <<"q", "1">>
Q2 == <<"q", "2">>
Keys == {Q1, Q2}
KeyOrder == <<Q1, Q2>>                       \* sorted order of the keys

EmptyTable == [columns |-> <<>>, data |-> <<>>]
NoFrame == [exc |-> "unset", table |-> EmptyTable]

\* a json payload: t is the Python type of the object
ListOf(recs) == [t |-> "list", recs |-> recs, table |-> EmptyTable]
DictOf(rec) == [t |-> "dict", recs |-> <<rec>>, table |-> EmptyTable]
TableOf(tbl) == [t |-> "DataFrame", recs |-> <<>>, table |-> tbl]
Scalar(ty) == [t |-> ty, recs |-> <<>>, table |-> EmptyTable]
NoData == Scalar("unset")

HasKey(rec, k) == rec[k].t # "missing"
ObservedKeys(recs) == {k \in Keys : \E i \in 1..Len(recs) : HasKey(recs[i], k)}

\* a slip: the columns are taken from the first dict only
DataFrameFromFirstRecord(recs) ==
    LET columns == SelectSeq(KeyOrder, LAMBDA k : recs # <<>> /\ HasKey(recs[1], k))
    IN  [columns |-> columns,
         data |-> [i \in 1..Len(recs) |->
                     [j \in 1..Len(columns) |->
                        IF HasKey(recs[i], columns[j])
                        THEN recs[i][columns[j]] ELSE NaN]]]

\* pd.DataFrame(list of dicts): one row per dict, columns the sorted union
\* of the keys, NaN where a dict lacks the key
DataFrameFromRecords(recs) ==
    LET columns == SelectSeq(KeyOrder, LAMBDA k : k \in ObservedKeys(recs))
    IN  [columns |-> columns,
         data |-> [i \in 1..Len(recs) |->
                     [j \in 1..Len(columns) |->
                        IF HasKey(recs[i], columns[j])
                        THEN recs[i][columns[j]] ELSE NaN]]]

\* pd.DataFrame(d.items()): one (key, value) row per item, columns 0 and 1;
\* order is the order in which the dict yields its items
DataFrameFromItems(rec, order) ==
    [columns |-> << <<"0">>, <<"1">> >>,
     data |-> [i \in 1..Len(order) |-> << Str(order[i]), rec[order[i]] >>]]

\* the orders in which a dict may yield its keys
ItemOrders(rec) ==
    LET present == {k \in Keys : HasKey(rec, k)}
    IN  {o \in UNION {[1..n -> present] : n \in 0..Cardinality(Keys)} :
            /\ Len(o) = Cardinality(present)
            /\ \A i, j \in 1..Len(o) : i # j => o[i] # o[j]}

\* a slip: the replacement is applied to every string, not only to ''
SanitizeCellEveryString(x) ==
    IF x.t = "str" THEN Str(ReplaceEmptyPattern(x.v, Space)) ELSE x

\* lambda x: x.replace('', ' ') if x == '' else x
SanitizeCell(x) ==
    IF x = Str(EmptyStr) THEN Str(ReplaceEmptyPattern(x.v, Space)) ELSE x

\* DataFrame.applymap(lambda x: x.replace('', ' ') if x == '' else x)
Applymap(df) ==
    [columns |-> df.columns,
     data |-> [i \in 1..Len(df.data) |->
                 [j \in 1..Len(df.data[i]) |-> SanitizeCell(df.data[i][j])]]]

\* a slip: a table given as payload is returned without the applymap pass
CreateDfTablePassedThrough(data, order) ==
    IF data.t = "list"
    THEN [exc |-> "none",
          table |-> Applymap(DataFrameFromRecords(data.recs))]
    ELSE IF data.t = "dict"
    THEN [exc |-> "none",
          table |-> Applymap(DataFrameFromItems(data.recs[1], order))]
    ELSE IF data.t = "DataFrame"
    THEN [exc |-> "none", table |-> data.table]
    ELSE [exc |-> "ValueError", table |-> EmptyTable]

\* a slip: no type is refused, an unknown payload is taken for a table
CreateDfNoTypeCheck(data, order) ==
    LET response_data_pd ==
            IF data.t = "list" THEN DataFrameFromRecords(data.recs)
            ELSE IF data.t = "dict" THEN DataFrameFromItems(data.recs[1], order)
            ELSE data.table
    IN  [exc |-> "none", table |-> Applymap(response_data_pd)]

\* create_df_from_api_data(json_data)
CreateDfFromApiData(data, order) ==
    IF data.t \in {"list", "dict", "DataFrame"}
    THEN LET response_data_pd ==
                 IF data.t = "list" THEN DataFrameFromRecords(data.recs)
                 ELSE IF data.t = "dict"
                 THEN DataFrameFromItems(data.recs[1], order)
                 ELSE data.table
         IN  [exc |-> "none", table |-> Applymap(response_data_pd)]
    ELSE [exc |-> "ValueError", table |-> EmptyTable]


-----------------------------------------------------------------------------
(* Strings of the program *)

ResponseExports == <<"r","e","s","p","o","n","s","e","e","x","p","o","r","t","s">>
SurveysSlash == <<"s","u","r","v","e","y","s","/">>
SurveyType == <<"s","u","r","v","e","y">>
JsonExt == <<"j","s","o","n">>
FeatherExt == <<"f","e","a","t","h","e","r">>
Placeholder == <<" ">>                       \* filename = ' '

UpperCase == <<"A","B","C","D","E","F","G","H","I","J","K","L","M",
               "N","O","P","Q","R","S","T","U","V","W","X","Y","Z">>
LowerCase == <<"a","b","c","d","e","f","g","h","i","j","k","l","m",
               "n","o","p","q","r","s","t","u","v","w","x","y","z">>

\* str.lower()
Lower(s) ==
    [i \in 1..Len(s) |->
        IF \E k \in 1..Len(UpperCase) : UpperCase[k] = s[i]
        THEN LowerCase[CHOOSE k \in 1..Len(UpperCase) : UpperCase[k] = s[i]]
        ELSE s[i]]

\* s.split(sep)[0]: the part of s before the first sep
SplitFirst(s, sep) ==
    IF \E i \in 1..Len(s) : s[i] = sep
    THEN SubSeq(s, 1, (CHOOSE i \in 1..Len(s) :
                          s[i] = sep /\ \A j \in 1..(i - 1) : s[j] # sep) - 1)
    ELSE s

Digits == <<"0","1","2","3","4","5","6","7","8","9">>

\* n in decimal, zero-padded to width characters (strftime's %Y %m %d %H %M %S)
RECURSIVE Pad(_, _)
Pad(n, width) ==
    IF width = 0 THEN <<>>
    ELSE Pad(n \div 10, width - 1) \o <<Digits[(n % 10) + 1]>>

-----------------------------------------------------------------------------
(* The wall clock: datetime.datetime.now() *)

FirstInstant == [year |-> 2017, month |-> 1, day |-> 9, secs |-> 86398]

Instant(n) ==
    LET total == FirstInstant.secs + n
        inday == total % 86400
    IN  [year |-> FirstInstant.year, month |-> FirstInstant.month,
         day |-> FirstInstant.day + (total \div 86400),
         hour |-> inday \div 3600, minute |-> (inday % 3600) \div 60,
         second |-> inday % 60]

StrftimeYmd(t) == Pad(t.year, 4) \o Pad(t.month, 2) \o Pad(t.day, 2)
StrftimeHMS(t) == Pad(t.hour, 2) \o Pad(t.minute, 2) \o Pad(t.second, 2)

-----------------------------------------------------------------------------
(* The file system, relative to the working directory *)

RECURSIVE StripSeps(_)
StripSeps(p) ==
    IF p # <<>> /\ p[Len(p)] = SEP THEN StripSeps(SubSeq(p, 1, Len(p) - 1))
    ELSE p

\* os.path.isdir(os.path.realpath(p)); '' resolves to the working directory
IsDir(p, d) == StripSeps(p) = <<>> \/ StripSeps(p) \in d

\* os.path.exists(p)
Exists(p, d, f) == IsDir(p, d) \/ StripSeps(p) \in DOMAIN f

\* the directory part of a file path
Dirname(p) ==
    IF \E i \in 1..Len(p) : p[i] = SEP
    THEN SubSeq(p, 1, CHOOSE i \in 1..Len(p) :
                         p[i] = SEP /\ \A j \in (i + 1)..Len(p) : p[j] # SEP)
    ELSE <<>>

\* open(p, 'w') and feather's open succeed when p's directory exists and p
\* itself is not a directory
CanOpenForWrite(p, d) == IsDir(Dirname(p), d) /\ ~IsDir(p, d)

Cwd == <<"/", "w", "/">>
\* os.path.abspath(p) for a relative p
Abspath(p) == Cwd \o p

JsonFile(v) == [fmt |-> "json", survey |-> v, table |-> EmptyTable]
FeatherFile(tbl) == [fmt |-> "feather", survey |-> "", table |-> tbl]
OtherFile == [fmt |-> "other", survey |-> "", table |-> EmptyTable]

Write(f, p, content) == [q \in DOMAIN f \cup {p} |-> IF q = p THEN content ELSE f[q]]

Event(e, at) == [e |-> e, at |-> at, type |-> <<>>]

\* setup_output_filename returned path for an artifact of this type
PathEvent(type, path) == [e |-> "setup_output_filename", at |-> path, type |-> type]

\* the calls of setup_output_filename in a log, each with the survey name and
\* the instant it was made for
Built(log, sname, t) ==
    LET made == SelectSeq(log, LAMBDA ev : ev.e = "setup_output_filename")
    IN  [i \in 1..Len(made) |->
            [survey_name |-> sname, type |-> made[i].type, instant |-> t,
             path |-> made[i].at]]

-----------------------------------------------------------------------------
(* How a call ends *)

\* the message of the error raised for an output path that is no directory
InvalidPathMessage ==
    "path_to_files argument is invalid.  Please check the supplied path, where the outputfiles should be written to disk."

NoOutcome ==
    [kind |-> "none", exc |-> "none", msg |-> "", at |-> <<>>, status |-> 0,
     data |-> NoData, survey |-> "", filename |-> <<>>]

Raise(exc, msg, at) ==
    [NoOutcome EXCEPT !.kind = "raise", !.exc = exc, !.msg = msg, !.at = at]

RaiseHTTPError(status) ==
    [NoOutcome EXCEPT !.kind = "raise", !.exc = "HTTPError", !.status = status]

\* return response_data_json, filename
ReturnExport(data, fname) ==
    [NoOutcome EXCEPT !.kind = "return", !.data = data, !.filename = fname]

\* return response_data_json (get_survey)
ReturnSurvey(v) == [NoOutcome EXCEPT !.kind = "return", !.survey = v]

ReturnPath(path) == [NoOutcome EXCEPT !.kind = "return", !.filename = path]

\* what an operation did: the exception it raised (or "none"), its result,
\* and the client's output path, the disk and the event log after it
Effect(exc, msg, at, ret, pto, d, f, log) ==
    [exc |-> exc, msg |-> msg, at |-> at, ret |-> ret, pto |-> pto,
     dirs |-> d, files |-> f, log |-> log]

-----------------------------------------------------------------------------
(* Output Path Builder and Disk Writer *)

\* a slip: a name already taken on disk is not reused, a suffix is added
SetupOutputFilenameAvoidsCollision(base_path, sname, type, extension, d, f, t) ==
    LET sub_folder == base_path \o project_name
        absent == ~Exists(sub_folder, d, f)
        today == IF ~use_timestamps THEN StrftimeYmd(t)
                 ELSE StrftimeYmd(t) \o <<"_">> \o StrftimeHMS(t)
        stem == sub_folder \o <<"/">> \o today \o <<"_">> \o sname
                    \o <<"_">> \o type
        taken == (stem \o <<".">> \o extension) \in DOMAIN f
        path == (IF taken THEN stem \o <<"_", "1">> ELSE stem)
                    \o <<".">> \o extension
    IN  [path |-> path,
         dirs |-> IF absent THEN d \cup {sub_folder} ELSE d,
         log |-> (IF absent THEN <<Event("mkdir", sub_folder)>> ELSE <<>>)
                 \o <<PathEvent(type, path)>>]

\* a slip: the time of day is put into every file name
SetupOutputFilenameAlwaysTimed(base_path, sname, type, extension, d, f, t) ==
    LET sub_folder == base_path \o project_name
        absent == ~Exists(sub_folder, d, f)
        today == StrftimeYmd(t) \o <<"_">> \o StrftimeHMS(t)
    IN  [path |-> sub_folder \o <<"/">> \o today \o <<"_">> \o sname
                    \o <<"_">> \o type \o <<".">> \o extension,
         dirs |-> IF absent THEN d \cup {sub_folder} ELSE d,
         log |-> (IF absent THEN <<Event("mkdir", sub_folder)>> ELSE <<>>)
                 \o <<PathEvent(type, sub_folder \o <<"/">> \o today \o <<"_">>
                                       \o sname \o <<"_">> \o type \o <<".">>
                                       \o extension)>>]

\* setup_output_filename(base_path, survey_name, type, extension) at instant t
SetupOutputFilename(base_path, sname, type, extension, d, f, t) ==
    LET sub_folder == base_path \o project_name
        absent == ~Exists(sub_folder, d, f)
        today == IF ~use_timestamps THEN StrftimeYmd(t)
                 ELSE StrftimeYmd(t) \o <<"_">> \o StrftimeHMS(t)
    IN  [path |-> sub_folder \o <<"/">> \o today \o <<"_">> \o sname
                    \o <<"_">> \o type \o <<".">> \o extension,
         dirs |-> IF absent THEN d \cup {sub_folder} ELSE d,
         log |-> (IF absent THEN <<Event("mkdir", sub_folder)>> ELSE <<>>)
                 \o <<PathEvent(type, sub_folder \o <<"/">> \o today \o <<"_">>
                                       \o sname \o <<"_">> \o type \o <<".">>
                                       \o extension)>>]

\* json.dump accepts the values json.loads gives; other objects are a TypeError
Serializable(data) == data # "object"

\* write_json_to_disk(json_data, full_file_path), path being full_file_path
WriteJsonToDisk(data, path, pto, d, f) ==
    IF ~CanOpenForWrite(path, d)
    THEN Effect("IOError", "No such file or directory", path, "",
                pto, d, f, <<>>)
    ELSE IF ~Serializable(data)
    THEN Effect("ValueError", "Unable to write json output to disk at",
                Abspath(path), "", pto, d,
                Write(f, path, JsonFile("partial")),
                <<Event("open", path)>>)
    ELSE Effect("none", "", <<>>, "", pto, d,
                Write(f, path, JsonFile(data)),
                <<Event("open", path)>>)

\* a slip: the output path is only checked to be a str, not to be a directory
WriteDfToDiskNoDirCheck(df, sname, url_suffix, pto, d, f, t) ==
    IF pto.t # "str"
    THEN Effect("ValueError", "path_to_files argument must be a string",
                <<>>, <<>>, pto, d, f, <<>>)
    ELSE LET path_to_files == IF LastCharIsNot(pto.v, SEP)
                              THEN pto.v \o <<"/">> ELSE pto.v
             setup == SetupOutputFilename(path_to_files, sname,
                          SplitFirst(url_suffix, "/"), FeatherExt, d, f, t)
         IN  IF CanOpenForWrite(setup.path, setup.dirs)
             THEN Effect("none", "", <<>>, setup.path, pto, setup.dirs,
                         Write(f, setup.path, FeatherFile(df)),
                         setup.log \o <<Event("feather", setup.path)>>)
             ELSE Effect("ValueError", "Unable to write feather output to disk",
                         <<>>, <<>>, pto, setup.dirs, f, setup.log)

\* write_df_to_disk(dataframe, survey_name, url_suffix) at instant t
WriteDfToDisk(df, sname, url_suffix, pto, d, f, t) ==
    IF pto.t # "str"
    THEN Effect("ValueError", "path_to_files argument must be a string",
                <<>>, <<>>, pto, d, f, <<>>)
    ELSE IF ~IsDir(pto.v, d)
    THEN Effect("ValueError", InvalidPathMessage,
                <<>>, <<>>, pto, d, f, <<>>)
    ELSE IF pto.v = <<>>
    THEN Effect("IndexError", "string index out of range",
                <<>>, <<>>, pto, d, f, <<>>)
    ELSE LET path_to_files == IF LastCharIsNot(pto.v, SEP)
                              THEN pto.v \o <<"/">> ELSE pto.v
             setup == SetupOutputFilename(path_to_files, sname,
                          SplitFirst(url_suffix, "/"), FeatherExt, d, f, t)
         IN  IF CanOpenForWrite(setup.path, setup.dirs)
             THEN Effect("none", "", <<>>, setup.path, pto, setup.dirs,
                         Write(f, setup.path, FeatherFile(df)),
                         setup.log \o <<Event("feather", setup.path)>>)
             ELSE Effect("ValueError", "Unable to write feather output to disk",
                         <<>>, <<>>, pto, setup.dirs, f, setup.log)

-----------------------------------------------------------------------------
(* Survey Definition Client *)

SurveyToken == <<"S", "V">>

\* what the server may answer to GET surveys/{survey_id}: a body whose
\* 'result' is a survey definition, or an error body without 'result'
SurveyResponses ==
    {[status |-> 200, result |-> "survey A"],
     [status |-> 200, result |-> "survey B"],
     [status |-> 401, result |-> ""]}

\* a slip: the definition is only returned when it is not written
GetSurveyReturnsNothingOnWrite(resp, sname, wtd, pto, d, f, t) ==
    LET get == <<Event("GET", base_url \o SurveysSlash \o SurveyToken)>>
    IN  IF resp.result = ""
        THEN Effect("KeyError", "result", <<>>, "", pto, d, f, get)
        ELSE IF ~wtd
        THEN Effect("none", "", <<>>, resp.result, pto, d, f, get)
        ELSE IF pto.t # "str"
        THEN Effect("ValueError", "path_to_files argument must be a string",
                    <<>>, "", pto, d, f, get)
        ELSE IF ~IsDir(pto.v, d)
        THEN Effect("ValueError", InvalidPathMessage,
                    <<>>, "", pto, d, f, get)
        ELSE IF pto.v = <<>>
        THEN Effect("IndexError", "string index out of range",
                    <<>>, "", pto, d, f, get)
        ELSE LET pto2 == IF LastCharIsNot(pto.v, SEP)
                         THEN Str(pto.v \o <<"/">>) ELSE pto
                 setup == SetupOutputFilename(pto2.v, sname, SurveyType,
                                              JsonExt, d, f, t)
                 wj == WriteJsonToDisk(resp.result, setup.path, pto2,
                                       setup.dirs, f)
             IN  [wj EXCEPT !.ret = "None",
                            !.log = get \o setup.log \o wj.log]

\* a slip: the separator is appended to the stored path on every call
GetSurveyAlwaysAppends(resp, sname, wtd, pto, d, f, t) ==
    LET get == <<Event("GET", base_url \o SurveysSlash \o SurveyToken)>>
    IN  IF resp.result = ""
        THEN Effect("KeyError", "result", <<>>, "", pto, d, f, get)
        ELSE IF ~wtd
        THEN Effect("none", "", <<>>, resp.result, pto, d, f, get)
        ELSE IF pto.t # "str"
        THEN Effect("ValueError", "path_to_files argument must be a string",
                    <<>>, "", pto, d, f, get)
        ELSE IF ~IsDir(pto.v, d)
        THEN Effect("ValueError", InvalidPathMessage,
                    <<>>, "", pto, d, f, get)
        ELSE IF pto.v = <<>>
        THEN Effect("IndexError", "string index out of range",
                    <<>>, "", pto, d, f, get)
        ELSE LET pto2 == Str(pto.v \o <<"/">>)
                 setup == SetupOutputFilename(pto2.v, sname, SurveyType,
                                              JsonExt, d, f, t)
                 wj == WriteJsonToDisk(resp.result, setup.path, pto2,
                                       setup.dirs, f)
             IN  [wj EXCEPT !.ret = IF wj.exc = "none" THEN resp.result ELSE "",
                            !.log = get \o setup.log \o wj.log]

\* get_survey(survey_token, survey_name, write_to_disk) at instant t, the
\* server answering resp
GetSurvey(resp, sname, wtd, pto, d, f, t) ==
    LET get == <<Event("GET", base_url \o SurveysSlash \o SurveyToken)>>
    IN  IF resp.result = ""
        THEN Effect("KeyError", "result", <<>>, "", pto, d, f, get)
        ELSE IF ~wtd
        THEN Effect("none", "", <<>>, resp.result, pto, d, f, get)
        ELSE IF pto.t # "str"
        THEN Effect("ValueError", "path_to_files argument must be a string",
                    <<>>, "", pto, d, f, get)
        ELSE IF ~IsDir(pto.v, d)
        THEN Effect("ValueError", InvalidPathMessage,
                    <<>>, "", pto, d, f, get)
        ELSE IF pto.v = <<>>
        THEN Effect("IndexError", "string index out of range",
                    <<>>, "", pto, d, f, get)
        ELSE LET pto2 == IF LastCharIsNot(pto.v, SEP)
                         THEN Str(pto.v \o <<"/">>) ELSE pto
                 setup == SetupOutputFilename(pto2.v, sname, SurveyType,
                                              JsonExt, d, f, t)
                 wj == WriteJsonToDisk(resp.result, setup.path, pto2,
                                       setup.dirs, f)
             IN  [wj EXCEPT !.ret = IF wj.exc = "none" THEN resp.result ELSE "",
                            !.log = get \o setup.log \o wj.log]

-----------------------------------------------------------------------------
(* What the caller passes and what the server answers *)

SurveyNames == {<<"s", "1">>, <<"s", "2">>}

\* path_to_output_files: an existing directory with and without a trailing
\* separator, a missing directory, a regular file, and a value that is no str
PathArgs ==
    {Str(<<"o">>), Str(<<"o", "/">>), Str(<<"x">>), Str(<<"f">>),
     [t |-> "int", v |-> <<"7">>]}

BaseUrlArgs == {<<>>, <<"h">>, <<"h", "/">>}

JobIds == {<<"E", "S", "1">>, <<"E", "S", "2">>}

\* what the server may answer to the submission POST: 200 with the job id in
\* result.id, or an error status
PostResponses ==
    {[status |-> 200, id |-> i] : i \in JobIds}
    \cup {[status |-> st, id |-> <<>>] : st \in {401, 500}}
NoResponse == [status |-> 0, id |-> <<>>]
FileUrl == <<"h", "/", "z">>

\* Response.ok: raise_for_status() raises for 4xx and 5xx
OkAlways(status) == TRUE
Ok(status) == ~(400 <= status /\ status < 600)

\* the body of a status poll: result.percentComplete and result.file (a URL,
\* or no such key)
StatusResponses ==
    {[percentComplete |-> pct, file |-> fl] :
        pct \in {50, 100},
        fl \in {Str(FileUrl), Missing}}

Rec(v1, v2) == [k \in Keys |-> IF k = Q1 THEN v1 ELSE v2]

\* the 'responses' values of the export documents
ExportPayloads ==
    {ListOf(<<Rec(Str(<<"a">>), Missing), Rec(Str(<<>>), Num)>>),
     DictOf(Rec(Str(<<>>), Missing)),
     Scalar("unicode")}

\* the parsed JSON of an archive member: an object with 'responses', an
\* object without it, or text that is no JSON
Documents ==
    {[t |-> "object", responses |-> p] : p \in ExportPayloads}
    \cup {[t |-> "object", responses |-> Scalar("missing")],
          [t |-> "malformed", responses |-> NoData]}

\* the documents that are also delivered under another member name
RenamedDocuments == {doc \in Documents : doc.responses.t = "list"}

Member(n, doc) == [name |-> n, doc |-> doc]
Zip(members) == [got |-> TRUE, zip |-> TRUE, members |-> members]
NotAZip == [got |-> TRUE, zip |-> FALSE, members |-> <<>>]
NoContent == [got |-> FALSE, zip |-> FALSE, members |-> <<>>]

\* the bodies the result-file URL may deliver
Archives ==
    {Zip(<<Member(<<"a">>, doc)>>) : doc \in Documents}
    \cup {Zip(<<Member(<<"b">>, doc)>>) : doc \in RenamedDocuments}
    \cup {Zip(<<Member(<<"a">>, [t |-> "object", responses |-> ListOf(<<>>)]),
                Member(<<"b">>, [t |-> "object", responses |-> Scalar("unicode")])>>),
          Zip(<<>>), NotAZip}

NoStatus == [percentComplete |-> 0, file |-> Missing]
NoBody == [status |-> 0, result |-> ""]

\* the status GETs the log records; later ones are still issued
MaxStatusGets == MaxWaitMs + 2

-----------------------------------------------------------------------------
(* Construction: Qualtrics.__init__ *)

NormalizeBaseUrl(url) == IF LastCharIsNot(url, "/") THEN url \o <<"/">> ELSE url

\* no call has been made
NoCall ==
    /\ calls = 0
    /\ survey_name = <<>> /\ write_to_disk = FALSE /\ get_survey = FALSE
    /\ max_wait_ms = 0 /\ sleep_ms = 0
    /\ export_response_handle = NoResponse
    /\ sleep_counter_ms = 0 /\ export_status_url = <<>>
    /\ response_status_json = NoStatus /\ r_content = NoContent
    /\ response_data_json = NoData /\ filename = <<>>
    /\ full_file_path = <<>>
    /\ json_data = NoData /\ dataframe = NoFrame /\ dataframe2 = NoFrame
    /\ status_gets = 0 /\ events = <<>> /\ built = <<>>
    /\ response_data = NoBody

\* the constructor returned: the client waits for its first call
Idle == NoCall /\ op = "none" /\ pc = "idle" /\ outcome = NoOutcome

\* lines 34-35 on an empty base_url: self.__base_url[-1] raises IndexError,
\* no client comes into being
ConstructionFailed ==
    /\ NoCall /\ op = "__init__" /\ pc = "failed"
    /\ outcome = Raise("IndexError", "string index out of range", <<>>)

\* the disk the client finds: the output directory "o" and a regular file
\* "f"; a regular file may stand where the project folder would go
ProjectFolder == <<"o", "/", "p">>

Disk ==
    /\ dirs = {<<"o">>}
    /\ files \in {(<<"f">> :> OtherFile),
                  (<<"f">> :> OtherFile) @@ (ProjectFolder :> OtherFile)}
    /\ now = 0

Init ==
    /\ \E url \in BaseUrlArgs, path \in PathArgs, ts \in BOOLEAN :
          /\ api_token_header = [token |-> "t", content_type |-> "application/json"]
          /\ project_name = <<"p">>
          /\ base_url_arg = url
          /\ base_url = IF url = <<>> THEN url ELSE NormalizeBaseUrl(url)
          /\ path_to_output_files = path
          /\ use_timestamps = ts
          /\ IF url = <<>> THEN ConstructionFailed ELSE Idle
    /\ Disk

-----------------------------------------------------------------------------
(* Export Job Client: get_responseexports *)

\* a slip: the separator before the job id is left out
UrlSuffixUnchanged(url_suffix) == url_suffix

\* if url_suffix[-1] != '/': url_suffix += '/'
UrlSuffix(url_suffix) ==
    IF LastCharIsNot(url_suffix, "/") THEN url_suffix \o <<"/">> ELSE url_suffix

\* lines 53-93 and 111-112: the submission POST; on a status that is not ok
\* raise_for_status() raises, otherwise the polling URL is built
CallGetResponseExports ==
    /\ pc = "idle" /\ calls < MaxCalls
    /\ \E sname \in SurveyNames, wtd \in BOOLEAN, gs \in BOOLEAN,
          mw \in 0..MaxWaitMs, sl \in 0..MaxSleepMs,
          resp \in PostResponses :
          /\ calls' = calls + 1
          /\ op' = "get_responseexports"
          /\ survey_name' = sname /\ write_to_disk' = wtd /\ get_survey' = gs
          /\ max_wait_ms' = mw /\ sleep_ms' = sl
          /\ events' = <<Event("POST", base_url \o ResponseExports)>>
          /\ export_response_handle' = resp
          /\ IF Ok(resp.status)
             THEN /\ export_status_url' =
                        base_url \o Lower(UrlSuffix(ResponseExports)) \o resp.id
                  /\ pc' = "re_poll"
                  /\ outcome' = NoOutcome
             ELSE /\ export_status_url' = <<>>
                  /\ pc' = "done"
                  /\ outcome' = RaiseHTTPError(resp.status)
    /\ UNCHANGED << clientVars, path_to_output_files, diskVars, now,
                    sleep_counter_ms, status_gets, response_status_json,
                    r_content, response_data_json, filename, full_file_path,
                    frameVars, built, response_data >>

\* a slip: the loop sleeps before it looks at percentComplete
PollSleepsFirst ==
    /\ pc = "re_poll" /\ sleep_counter_ms <= max_wait_ms
    /\ \E resp \in StatusResponses :
          LET logged == status_gets < MaxStatusGets
              get == IF logged THEN <<Event("GET", export_status_url)>> ELSE <<>>
              sleep == IF logged THEN <<Event("sleep", Pad(sleep_ms, 1))>> ELSE <<>>
          IN  /\ response_status_json' = resp
              /\ status_gets' = IF logged THEN status_gets + 1 ELSE status_gets
              /\ IF resp.percentComplete = 100
                 THEN /\ sleep_counter_ms' = sleep_counter_ms + sleep_ms
                      /\ events' = events \o get \o sleep
                      /\ pc' = "re_fetch"
                 ELSE /\ sleep_counter_ms' = sleep_counter_ms + sleep_ms
                      /\ events' = events \o get \o sleep
                      /\ pc' = IF sleep_counter_ms + sleep_ms <= max_wait_ms
                               THEN "re_poll" ELSE "re_fetch"
    /\ UNCHANGED << clientVars, path_to_output_files, diskVars, now, calls, op,
                    argVars, export_response_handle, export_status_url,
                    r_content, response_data_json, filename, full_file_path,
                    frameVars, built, response_data, outcome >>

\* lines 95-102: one turn of the polling loop, the server answering resp,
\* and the loop test that follows it
Poll ==
    /\ pc = "re_poll" /\ sleep_counter_ms <= max_wait_ms
    /\ \E resp \in StatusResponses :
          LET logged == status_gets < MaxStatusGets
              get == IF logged THEN <<Event("GET", export_status_url)>> ELSE <<>>
              sleep == IF logged THEN <<Event("sleep", Pad(sleep_ms, 1))>> ELSE <<>>
          IN  /\ response_status_json' = resp
              /\ status_gets' = IF logged THEN status_gets + 1 ELSE status_gets
              /\ IF resp.percentComplete = 100
                 THEN /\ sleep_counter_ms' = sleep_counter_ms
                      /\ events' = events \o get
                      /\ pc' = "re_fetch"
                 ELSE /\ sleep_counter_ms' = sleep_counter_ms + sleep_ms
                      /\ events' = events \o get \o sleep
                      /\ pc' = IF sleep_counter_ms + sleep_ms <= max_wait_ms
                               THEN "re_poll" ELSE "re_fetch"
    /\ UNCHANGED << clientVars, path_to_output_files, diskVars, now, calls, op,
                    argVars, export_response_handle, export_status_url,
                    r_content, response_data_json, filename, full_file_path,
                    frameVars, built, response_data, outcome >>

\* the members z.NameToInfo.keys()[0] may name: a dict has no defined order
Picks(archive) ==
    IF archive.zip /\ archive.members # <<>> THEN 1..Len(archive.members) ELSE {0}

\* a slip: the member is looked up under a fixed name
ReadArchiveByName(archive, i) ==
    IF ~archive.zip THEN [exc |-> "BadZipfile", data |-> NoData]
    ELSE IF ~\E k \in 1..Len(archive.members) : archive.members[k].name = <<"a">>
    THEN [exc |-> "KeyError", data |-> NoData]
    ELSE LET doc == archive.members[CHOOSE k \in 1..Len(archive.members) :
                                       archive.members[k].name = <<"a">>].doc
         IN  IF doc.t = "malformed" THEN [exc |-> "ValueError", data |-> NoData]
             ELSE IF doc.responses.t = "missing"
             THEN [exc |-> "KeyError", data |-> NoData]
             ELSE [exc |-> "none", data |-> doc.responses]

\* lines 107-109 and 114: unzip r.content, read the member picked, parse it
\* and take its 'responses'
ReadArchive(archive, i) ==
    IF ~archive.zip THEN [exc |-> "BadZipfile", data |-> NoData]
    ELSE IF archive.members = <<>> THEN [exc |-> "IndexError", data |-> NoData]
    ELSE LET doc == archive.members[i].doc
         IN  IF doc.t = "malformed" THEN [exc |-> "ValueError", data |-> NoData]
             ELSE IF doc.responses.t = "missing"
             THEN [exc |-> "KeyError", data |-> NoData]
             ELSE [exc |-> "none", data |-> doc.responses]

\* lines 104-116 and 124-127: the result file is fetched from the URL the
\* last status body carries
Fetch ==
    /\ pc = "re_fetch"
    /\ LET file == response_status_json.file
       IN  IF file.t # "str"
           THEN /\ outcome' = IF file.t = "missing"
                              THEN Raise("KeyError", "file", <<>>)
                              ELSE Raise("MissingSchema", "Invalid URL", <<>>)
                /\ pc' = "done"
                /\ UNCHANGED << r_content, response_data_json, filename, events >>
           ELSE \E archive \in Archives : \E i \in Picks(archive) :
                  LET read == ReadArchive(archive, i)
                  IN  /\ r_content' = archive
                      /\ events' = events \o <<Event("GET", file.v)>>
                      /\ IF read.exc # "none"
                         THEN /\ outcome' = Raise(read.exc, "", <<>>)
                              /\ pc' = "done"
                              /\ UNCHANGED << response_data_json, filename >>
                         ELSE /\ response_data_json' = read.data
                              /\ filename' = Placeholder
                              /\ IF write_to_disk
                                 THEN pc' = "re_write" /\ outcome' = outcome
                                 ELSE IF get_survey
                                 THEN pc' = "re_survey" /\ outcome' = outcome
                                 ELSE /\ pc' = "done"
                                      /\ outcome' = ReturnExport(read.data, Placeholder)
    /\ UNCHANGED << clientVars, path_to_output_files, diskVars, now, calls, op,
                    argVars, export_response_handle, sleep_counter_ms,
                    export_status_url, response_status_json, status_gets,
                    full_file_path, frameVars, built, response_data >>

Orders(data) == IF data.t = "dict" THEN ItemOrders(data.recs[1]) ELSE {<<>>}

\* lines 118-120 (and 127): the table is built, then written
WriteTable ==
    /\ pc = "re_write"
    /\ \E order \in Orders(response_data_json) :
          LET made == CreateDfFromApiData(response_data_json, order)
              wd == WriteDfToDisk(made.table, survey_name,
                                  UrlSuffix(ResponseExports),
                                  path_to_output_files, dirs, files, Instant(now))
          IN  /\ dataframe' = made
              /\ IF made.exc # "none"
                 THEN /\ outcome' = Raise(made.exc, "Need to add a new type of dataframe object value to the code.", <<>>)
                      /\ pc' = "done"
                      /\ UNCHANGED << diskVars, events, built, filename >>
                 ELSE /\ dirs' = wd.dirs /\ files' = wd.files
                      /\ events' = events \o wd.log
                      /\ built' = built \o Built(wd.log, survey_name, now)
                      /\ IF wd.exc # "none"
                         THEN /\ outcome' = Raise(wd.exc, wd.msg, wd.at)
                              /\ pc' = "done"
                              /\ UNCHANGED filename
                         ELSE /\ filename' = wd.ret
                              /\ IF get_survey
                                 THEN pc' = "re_survey" /\ outcome' = outcome
                                 ELSE /\ pc' = "done"
                                      /\ outcome' = ReturnExport(response_data_json, wd.ret)
    /\ UNCHANGED << clientVars, path_to_output_files, now, calls, op, argVars,
                    export_response_handle, sleep_counter_ms,
                    export_status_url, response_status_json,
                    r_content, response_data_json, status_gets, full_file_path,
                    json_data, dataframe2, response_data >>

\* a slip: the companion call is told to write whatever the caller asked
SurveyAlwaysWritten ==
    /\ pc = "re_survey"
    /\ \E resp \in SurveyResponses :
          LET gs == GetSurvey(resp, survey_name, TRUE,
                              path_to_output_files, dirs, files, Instant(now))
          IN  /\ path_to_output_files' = gs.pto
              /\ dirs' = gs.dirs /\ files' = gs.files
              /\ events' = events \o gs.log
              /\ built' = built \o Built(gs.log, survey_name, now)
              /\ response_data' = resp
              /\ pc' = "done"
              /\ outcome' = IF gs.exc # "none" THEN Raise(gs.exc, gs.msg, gs.at)
                            ELSE ReturnExport(response_data_json, filename)
    /\ UNCHANGED << clientVars, now, calls, op, argVars, exportVars,
                    full_file_path, frameVars >>

\* lines 124-127: the companion call of get_survey, then the return
Survey ==
    /\ pc = "re_survey"
    /\ \E resp \in SurveyResponses :
          LET gs == GetSurvey(resp, survey_name, write_to_disk,
                              path_to_output_files, dirs, files, Instant(now))
          IN  /\ path_to_output_files' = gs.pto
              /\ dirs' = gs.dirs /\ files' = gs.files
              /\ events' = events \o gs.log
              /\ built' = built \o Built(gs.log, survey_name, now)
              /\ response_data' = resp
              /\ pc' = "done"
              /\ outcome' = IF gs.exc # "none" THEN Raise(gs.exc, gs.msg, gs.at)
                            ELSE ReturnExport(response_data_json, filename)
    /\ UNCHANGED << clientVars, now, calls, op, argVars, exportVars,
                    full_file_path, frameVars >>

-----------------------------------------------------------------------------
(* The other public methods, called directly *)

\* get_survey(survey_token, survey_name, write_to_disk), lines 144-166
CallGetSurvey ==
    /\ pc = "idle" /\ calls < MaxCalls
    /\ \E sname \in SurveyNames, wtd \in BOOLEAN, resp \in SurveyResponses :
          LET gs == GetSurvey(resp, sname, wtd, path_to_output_files,
                              dirs, files, Instant(now))
          IN  /\ survey_name' = sname /\ write_to_disk' = wtd
              /\ path_to_output_files' = gs.pto
              /\ dirs' = gs.dirs /\ files' = gs.files
              /\ events' = gs.log
              /\ built' = built \o Built(gs.log, sname, now)
              /\ response_data' = resp
              /\ outcome' = IF gs.exc # "none" THEN Raise(gs.exc, gs.msg, gs.at)
                            ELSE ReturnSurvey(gs.ret)
    /\ calls' = calls + 1 /\ op' = "get_survey" /\ pc' = "done"
    /\ UNCHANGED << clientVars, now, get_survey, max_wait_ms, sleep_ms,
                    exportVars, full_file_path, frameVars >>

\* the tables a caller hands to write_df_to_disk
FrameArgs ==
    {Applymap(DataFrameFromRecords(<<Rec(Str(<<"a">>), Missing)>>)),
     Applymap(DataFrameFromRecords(<<Rec(Str(<<>>), Num)>>))}

\* write_df_to_disk(dataframe, survey_name, url_suffix), lines 223-242
CallWriteDfToDisk ==
    /\ pc = "idle" /\ calls < MaxCalls
    /\ \E df \in FrameArgs, sname \in SurveyNames :
          LET wd == WriteDfToDisk(df, sname, UrlSuffix(ResponseExports),
                                  path_to_output_files, dirs, files, Instant(now))
          IN  /\ survey_name' = sname
              /\ dataframe' = [exc |-> "none", table |-> df]
              /\ dirs' = wd.dirs /\ files' = wd.files
              /\ events' = wd.log
              /\ built' = built \o Built(wd.log, sname, now)
              /\ outcome' = IF wd.exc # "none" THEN Raise(wd.exc, wd.msg, wd.at)
                            ELSE ReturnPath(wd.ret)
    /\ calls' = calls + 1 /\ op' = "write_df_to_disk" /\ pc' = "done"
    /\ UNCHANGED << clientVars, path_to_output_files, now, write_to_disk,
                    get_survey, max_wait_ms, sleep_ms, exportVars,
                    full_file_path, json_data, dataframe2, response_data >>

\* the json_data and full_file_path a caller hands to write_json_to_disk: a
\* file in the output directory, one in a missing directory, a directory
JsonArgs == {"survey A", "object"}
JsonPathArgs == {<<"o", "/", "j">>, <<"x", "/", "j">>, <<"o">>}

\* write_json_to_disk(json_data, full_file_path), lines 175-189
CallWriteJsonToDisk ==
    /\ pc = "idle" /\ calls < MaxCalls
    /\ \E data \in JsonArgs, path \in JsonPathArgs :
          LET wj == WriteJsonToDisk(data, path, path_to_output_files, dirs, files)
          IN  /\ full_file_path' = path
              /\ dirs' = wj.dirs /\ files' = wj.files
              /\ events' = wj.log
              /\ outcome' = IF wj.exc # "none" THEN Raise(wj.exc, wj.msg, wj.at)
                            ELSE [NoOutcome EXCEPT !.kind = "return"]
    /\ calls' = calls + 1 /\ op' = "write_json_to_disk" /\ pc' = "done"
    /\ UNCHANGED << clientVars, path_to_output_files, now, argVars,
                    exportVars, frameVars, built, response_data >>

\* the call is over: its frame is gone, the caller has the result
Return ==
    /\ pc = "done"
    /\ pc' = "idle" /\ op' = "none"
    /\ survey_name' = <<>> /\ write_to_disk' = FALSE /\ get_survey' = FALSE
    /\ max_wait_ms' = 0 /\ sleep_ms' = 0
    /\ export_response_handle' = NoResponse
    /\ sleep_counter_ms' = 0 /\ export_status_url' = <<>>
    /\ response_status_json' = NoStatus /\ r_content' = NoContent
    /\ response_data_json' = NoData /\ filename' = <<>>
    /\ full_file_path' = <<>> /\ dataframe' = NoFrame
    /\ status_gets' = 0 /\ events' = <<>> /\ outcome' = NoOutcome
    /\ response_data' = NoBody
    /\ UNCHANGED << clientVars, path_to_output_files, diskVars, now, calls,
                    json_data, dataframe2, built >>

\* time passes between calls
Tick ==
    /\ pc = "idle" /\ now < MaxTicks
    /\ now' = now + 1
    /\ UNCHANGED << clientVars, path_to_output_files, diskVars, calls, op, pc,
                    argVars, exportVars, full_file_path, frameVars, events,
                    built, response_data, outcome >>

Next ==
    \/ CallGetResponseExports
    \/ Poll
    \/ Fetch
    \/ WriteTable
    \/ Survey
    \/ CallGetSurvey
    \/ CallWriteDfToDisk
    \/ CallWriteJsonToDisk
    \/ Return
    \/ Tick

Spec == Init /\ [][Next]_vars

\* one call of get_responseexports on a new client
FirstExport == calls = 0 /\ CallGetResponseExports

NextExport ==
    \/ FirstExport
    \/ Poll
    \/ Fetch
    \/ WriteTable
    \/ Survey
    \/ Return
    \/ Tick

SpecExport == Init /\ [][NextExport]_vars

\* one call of get_responseexports up to the end of its polling loop
NextPolling ==
    \/ FirstExport
    \/ Poll

\* a running loop goes on: the interpreter executes its next turn
FairSpecPolling == Init /\ [][NextPolling]_vars /\ WF_vars(Poll)

\* calls of the methods that do not poll
NextDisk ==
    \/ CallGetSurvey
    \/ CallWriteDfToDisk
    \/ CallWriteJsonToDisk
    \/ Return
    \/ Tick

SpecDisk == Init /\ [][NextDisk]_vars

\* a client's life: an export first or not at all, then calls of get_survey
\* and write_df_to_disk
NextClient ==
    \/ FirstExport
    \/ Poll
    \/ Fetch
    \/ WriteTable
    \/ Survey
    \/ CallGetSurvey
    \/ CallWriteDfToDisk
    \/ Return
    \/ Tick

SpecClient == Init /\ [][NextClient]_vars

-----------------------------------------------------------------------------
(* Tabular Materializer: create_df_from_api_data on its own *)

CellValues == {Str(EmptyStr), Str(<<"a">>), Num}
Records == [Keys -> CellValues \cup {Missing}]
RecordLists == UNION {[1..n -> Records] : n \in 0..MaxRecords}

TableCells == CellValues \cup {NaN, Str(Space)}
Tables ==
    UNION {{[columns |-> cols, data |-> rows] :
               rows \in [1..n -> [1..Len(cols) -> TableCells]]} :
           cols \in {<<Q1>>, <<Q1, Q2>>}, n \in 0..MaxTableRows}

FramePayloads ==
    {ListOf(recs) : recs \in RecordLists}
    \cup {DictOf(rec) : rec \in Records}
    \cup {TableOf(tbl) : tbl \in Tables}
    \cup {Scalar(ty) : ty \in {"unicode", "int", "NoneType"}}

InitFrame ==
    /\ api_token_header = [token |-> "t", content_type |-> "application/json"]
    /\ project_name = <<"p">>
    /\ base_url_arg = <<"h">>
    /\ base_url = NormalizeBaseUrl(<<"h">>)
    /\ path_to_output_files = Str(<<"o">>)
    /\ use_timestamps = FALSE
    /\ dirs = {<<"o">>} /\ files = (<<"f">> :> OtherFile) /\ now = 0
    /\ calls = 0 /\ op = "none" /\ pc = "idle"
    /\ survey_name = <<>> /\ write_to_disk = FALSE /\ get_survey = FALSE
    /\ max_wait_ms = 0 /\ sleep_ms = 0
    /\ export_response_handle = NoResponse
    /\ sleep_counter_ms = 0 /\ export_status_url = <<>>
    /\ response_status_json = NoStatus /\ r_content = NoContent
    /\ response_data_json = NoData /\ filename = <<>>
    /\ full_file_path = <<>>
    /\ json_data \in FramePayloads
    /\ dataframe = NoFrame /\ dataframe2 = NoFrame
    /\ status_gets = 0 /\ events = <<>> /\ built = <<>>
    /\ response_data = NoBody /\ outcome = NoOutcome

\* create_df_from_api_data(json_data), lines 198-214
Materialize ==
    /\ pc = "idle" /\ op = "none"
    /\ \E order \in Orders(json_data) :
          /\ dataframe' = CreateDfFromApiData(json_data, order)
          /\ outcome' = IF dataframe'.exc # "none"
                        THEN Raise(dataframe'.exc, "Need to add a new type of dataframe object value to the code.", <<>>)
                        ELSE [NoOutcome EXCEPT !.kind = "return"]
    /\ op' = "create_df_from_api_data" /\ pc' = "done"
    /\ calls' = calls + 1
    /\ UNCHANGED << clientVars, path_to_output_files, diskVars, now, argVars,
                    exportVars, full_file_path, json_data, dataframe2, events,
                    built, response_data >>

\* create_df_from_api_data applied to the table it returned
Rematerialize ==
    /\ pc = "done" /\ op = "create_df_from_api_data"
    /\ dataframe.exc = "none" /\ dataframe2 = NoFrame
    /\ dataframe2' = CreateDfFromApiData(TableOf(dataframe.table), <<>>)
    /\ calls' = calls + 1
    /\ UNCHANGED << clientVars, path_to_output_files, diskVars, now, op, pc,
                    argVars, exportVars, full_file_path, json_data, dataframe,
                    events, built, response_data, outcome >>

NextFrame ==
    \/ Materialize
    \/ Rematerialize

SpecFrame == InitFrame /\ [][NextFrame]_vars

-----------------------------------------------------------------------------
(* Properties of the Tabular Materializer, checked under SpecFrame *)

Cells(tbl) ==
    {tbl.data[i][j] : i \in 1..Len(tbl.data), j \in 1..Len(tbl.columns)}

\* C5: for every payload create_df_from_api_data accepts, no cell of the
\* returned table is the empty string, and applying it again to its own
\* output returns the identical table
C5_SanitizedAndIdempotent ==
    /\ dataframe.exc = "none" =>
          \A i \in 1..Len(dataframe.table.data) :
             \A j \in 1..Len(dataframe.table.data[i]) :
                dataframe.table.data[i][j] # Str(EmptyStr)
    /\ dataframe2 # NoFrame => dataframe2 = dataframe

\* a dict payload with an empty-string value has been materialized twice
C5_Witness ==
    /\ json_data.t = "dict"
    /\ \E k \in Keys : json_data.recs[1][k] = Str(EmptyStr)
    /\ \E k \in Keys : json_data.recs[1][k] = Str(<<"a">>)
    /\ dataframe.exc = "none" /\ dataframe2.exc = "none"

\* C6: a list of records gives one row per record in input order, the
\* columns are the union of the keys, a missing key gives a null cell, an
\* empty string becomes a single space, every other value is kept
C6_RecordListTable ==
    (json_data.t = "list" /\ dataframe # NoFrame) =>
       LET recs == json_data.recs
           tbl == dataframe.table
       IN  /\ dataframe.exc = "none"
           /\ Len(tbl.data) = Len(recs)
           /\ {tbl.columns[j] : j \in 1..Len(tbl.columns)} =
                 {k \in Keys : \E i \in 1..Len(recs) : recs[i][k] # Missing}
           /\ \A j1, j2 \in 1..Len(tbl.columns) :
                 tbl.columns[j1] = tbl.columns[j2] => j1 = j2
           /\ \A i \in 1..Len(recs) :
                 /\ Len(tbl.data[i]) = Len(tbl.columns)
                 /\ \A j \in 1..Len(tbl.columns) :
                       LET v == recs[i][tbl.columns[j]]
                       IN  tbl.data[i][j] =
                              IF v = Missing THEN NaN
                              ELSE IF v = Str(EmptyStr) THEN Str(Space)
                              ELSE v

\* three records with differing key sets: {q1: a}, {q1: a, q2: ''}, {q2: a}
C6_Witness ==
    /\ json_data = ListOf(<<Rec(Str(<<"a">>), Missing),
                            Rec(Str(<<"a">>), Str(EmptyStr)),
                            Rec(Missing, Str(<<"a">>))>>)
    /\ dataframe.exc = "none"
    /\ dataframe.table =
          [columns |-> <<Q1, Q2>>,
           data |-> << <<Str(<<"a">>), NaN>>,
                       <<Str(<<"a">>), Str(Space)>>,
                       <<NaN, Str(<<"a">>)>> >>]

\* C7 as stated: a table payload comes back with every cell unchanged
C7_TableUnchanged ==
    (json_data.t = "DataFrame" /\ dataframe # NoFrame) =>
       dataframe.table = json_data.table

\* C7 amended: a table payload comes back with the same shape and columns,
\* every empty-string cell replaced by a single space and every other cell
\* unchanged
C7_TableSanitized ==
    (json_data.t = "DataFrame" /\ dataframe # NoFrame) =>
       LET tin == json_data.table
           tout == dataframe.table
       IN  /\ dataframe.exc = "none"
           /\ tout.columns = tin.columns
           /\ Len(tout.data) = Len(tin.data)
           /\ \A i \in 1..Len(tin.data) :
                 /\ Len(tout.data[i]) = Len(tin.data[i])
                 /\ \A j \in 1..Len(tin.data[i]) :
                       tout.data[i][j] =
                          IF tin.data[i][j] = Str(EmptyStr) THEN Str(Space)
                          ELSE tin.data[i][j]

\* a table with an empty-string cell and another string cell has been given
C7_Witness ==
    /\ json_data.t = "DataFrame"
    /\ Str(EmptyStr) \in Cells(json_data.table)
    /\ Str(<<"a">>) \in Cells(json_data.table)
    /\ dataframe.exc = "none"

-----------------------------------------------------------------------------
(* Properties of get_responseexports, checked under SpecExport and, for the
   polling loop's progress, under FairSpecPolling *)

\* the call has created no directory and created or changed no file
DiskUntouched ==
    /\ \A i \in 1..Len(events) : events[i].e \notin {"mkdir", "open", "feather"}
    /\ dirs = {<<"o">>}
    /\ \A p \in DOMAIN files : files[p] = OtherFile

\* C1: when the submission POST returns a non-success status the call fails
\* with the transport error, issues no GET and writes nothing to disk
C1_FailedSubmissionStops ==
    (op = "get_responseexports" /\ export_response_handle.status >= 400) =>
       /\ pc = "done"
       /\ outcome.kind = "raise" /\ outcome.exc = "HTTPError"
       /\ outcome.status = export_response_handle.status
       /\ events = <<Event("POST", base_url \o ResponseExports)>>
       /\ status_gets = 0
       /\ DiskUntouched

\* a submission answered 500 by a caller that asked for files and the survey
C1_Witness ==
    /\ op = "get_responseexports" /\ export_response_handle.status = 500
    /\ write_to_disk /\ get_survey
    /\ outcome.exc = "HTTPError"

\* C2: a run in which no status poll reports percentComplete == 100 before
\* the wait exceeds max_wait does not return a record set and filename
C2_NoSuccessWithoutCompletion ==
    (op = "get_responseexports" /\ pc = "done" /\ outcome.kind = "return") =>
       response_status_json.percentComplete = 100

\* C3: whatever the server answers, the polling loop is left
C3_PollingTerminates == (pc = "re_poll") ~> (pc # "re_poll")

\* the one member of an archive that holds exactly one file, its JSON having
\* a 'responses' entry
OneFile(archive) ==
    /\ archive.got /\ archive.zip /\ Len(archive.members) = 1
    /\ archive.members[1].doc.t = "object"
    /\ archive.members[1].doc.responses.t # "missing"

C8_UnsupportedPayloadFailsBeforeWrite ==
    (/\ op = "get_responseexports" /\ write_to_disk
     /\ response_data_json.t \notin {"list", "dict", "DataFrame", "unset"}
     /\ pc \notin {"re_write"}) =>
       /\ pc = "done"
       /\ dataframe.exc = "ValueError"
       /\ outcome.kind = "raise" /\ outcome.exc = "ValueError"
       /\ outcome.msg = "Need to add a new type of dataframe object value to the code."
       /\ DiskUntouched

\* an export whose 'responses' is a string, asked to be written to a good
\* output directory
C8_Witness ==
    /\ op = "get_responseexports" /\ write_to_disk /\ pc = "done"
    /\ response_data_json = Scalar("unicode")
    /\ path_to_output_files = Str(<<"o">>)
    /\ outcome.exc = "ValueError"

-----------------------------------------------------------------------------
(* Properties of the Disk Writer, checked under SpecDisk *)

\* the base output path is no str or names no existing directory
BadOutputPath ==
    \/ path_to_output_files.t # "str"
    \/ StripSeps(path_to_output_files.v) \notin dirs

\* C9: on both write paths (get_survey's JSON, write_df_to_disk's table) a
\* base output path that is no string or no existing directory makes the
\* operation fail with the configuration error before any file-system
\* change: no project folder is created, no file opened or written
C9_BadPathFailsBeforeIO ==
    [][(/\ pc = "idle" /\ pc' = "done" /\ BadOutputPath
        /\ \/ op' = "write_df_to_disk"
           \/ op' = "get_survey" /\ write_to_disk' /\ outcome'.exc # "KeyError") =>
          /\ outcome'.kind = "raise" /\ outcome'.exc = "ValueError"
          /\ outcome'.msg = IF path_to_output_files.t # "str"
                            THEN "path_to_files argument must be a string"
                            ELSE InvalidPathMessage
          /\ dirs' = dirs /\ files' = files
          /\ \A i \in 1..Len(events') :
                events'[i].e \notin {"mkdir", "open", "feather"}]_vars

\* get_survey asked to write under a directory that does not exist
C9_Witness ==
    /\ pc = "done" /\ op = "get_survey" /\ write_to_disk
    /\ path_to_output_files = Str(<<"x">>)
    /\ outcome.exc = "ValueError"
    /\ Len(events) = 1 /\ events[1].e = "GET"

\* C10: every failure of write_json_to_disk reaches the caller as the write
\* error naming the resolved absolute path
C10_WriteJsonFailuresAreWriteErrors ==
    (pc = "done" /\ op = "write_json_to_disk" /\ outcome.kind = "raise") =>
       /\ outcome.exc = "ValueError"
       /\ outcome.msg = "Unable to write json output to disk at"
       /\ outcome.at = Abspath(full_file_path)

-----------------------------------------------------------------------------
(* Properties of the Output Path Builder *)

\* <base>/<project_name>/<date[_time]>_<survey_name>_<artifact_type>.<extension>
\* for the running call, base being the configured path less its trailing
\* separator
PathForm(artifact_type, extension) ==
    StripSeps(path_to_output_files.v) \o <<"/">> \o project_name \o <<"/">>
        \o StrftimeYmd(Instant(now))
        \o (IF use_timestamps THEN <<"_">> \o StrftimeHMS(Instant(now)) ELSE <<>>)
        \o <<"_">> \o survey_name \o <<"_">> \o artifact_type
        \o <<".">> \o extension

\* C11: every path built for a write has the form
\* <base>/<project_name>/<date[_time]>_<survey_name>_<artifact_type>.<extension>:
\* an 8-digit date always, the time exactly in timestamp mode, the type
\* 'responseexports' for the table and 'survey' for the survey definition,
\* and one separator between base and project name whether or not the
\* configured base ends with one
C11_PathForm ==
    (op = "get_responseexports") =>
       /\ Len(StrftimeYmd(Instant(now))) = 8 /\ Len(StrftimeHMS(Instant(now))) = 6
       /\ \A i \in 1..Len(events) :
             /\ events[i].e = "feather" =>
                   events[i].at = PathForm(<<"r","e","s","p","o","n","s","e",
                                             "e","x","p","o","r","t","s">>,
                                           <<"f","e","a","t","h","e","r">>)
             /\ events[i].e = "open" =>
                   events[i].at = PathForm(<<"s","u","r","v","e","y">>,
                                           <<"j","s","o","n">>)
       /\ (pc = "done" /\ outcome.kind = "return" /\ write_to_disk) =>
             outcome.filename = PathForm(<<"r","e","s","p","o","n","s","e",
                                           "e","x","p","o","r","t","s">>,
                                         <<"f","e","a","t","h","e","r">>)

\* a call in timestamp mode on a base path ending with a separator that wrote
\* the table and the survey definition
C11_Witness ==
    /\ op = "get_responseexports" /\ pc = "done" /\ outcome.kind = "return"
    /\ use_timestamps /\ path_to_output_files = Str(<<"o", "/">>)
    /\ \E i \in 1..Len(events) : events[i].e = "feather"
    /\ \E i \in 1..Len(events) : events[i].e = "open"
    /\ outcome.filename = <<"o","/","p","/","2","0","1","7","0","1","0","9","_",
                            "2","3","5","9","5","8","_","s","1","_",
                            "r","e","s","p","o","n","s","e","e","x","p","o","r","t","s",
                            ".","f","e","a","t","h","e","r">>

\* two calls of setup_output_filename had the same inputs
SameInputs(a, b) == a.survey_name = b.survey_name /\ a.type = b.type

\* the path a call step has just built names a file that is already on disk
Rewrites ==
    /\ pc = "idle" /\ pc' = "done"
    /\ Len(built') = Len(built) + 1
    /\ built'[Len(built')].path \in DOMAIN files

\* C12: two calls of setup_output_filename with the same inputs at the same
\* instant return the same path; without timestamps two calls on the same
\* calendar day for the same project, survey and artifact type return the
\* same path, and the second write replaces the first file instead of
\* raising an error
C12_Deterministic ==
    /\ [](\A i \in 1..Len(built) : \A j \in 1..Len(built) :
             SameInputs(built[i], built[j]) =>
                /\ built[i].instant = built[j].instant =>
                      built[i].path = built[j].path
                /\ (/\ ~use_timestamps
                    /\ StrftimeYmd(Instant(built[i].instant))
                          = StrftimeYmd(Instant(built[j].instant))) =>
                      built[i].path = built[j].path)
    /\ [][Rewrites =>
            /\ outcome'.kind = "return"
            /\ DOMAIN files' = DOMAIN files
            /\ files'[built'[Len(built')].path] =
                  IF op' = "get_survey" THEN JsonFile(outcome'.survey)
                  ELSE FeatherFile(dataframe'.table)]_vars

\* the same survey's table written twice on one day, a second apart, without
\* timestamps: one path, holding the second table
C12_Witness ==
    /\ pc = "done" /\ op = "write_df_to_disk" /\ outcome.kind = "return"
    /\ ~use_timestamps
    /\ Len(built) = 2 /\ SameInputs(built[1], built[2])
    /\ built[1].instant = 0 /\ built[2].instant = 1
    /\ built[1].path = built[2].path
    /\ files[built[2].path] = FeatherFile(dataframe.table)
    /\ Len(dataframe.table.columns) = 2
    /\ dataframe.table.data[1][2] = Num

-----------------------------------------------------------------------------
(* Properties of the Survey Definition Client, checked under SpecDisk *)

\* the positions of the events of one kind in the log of the running call
EventsOf(kind) == {i \in 1..Len(events) : events[i].e = kind}

\* C13: get_survey issues exactly one GET, to surveys/{survey_id}, and no
\* other request; what it returns is the 'result' of the body, with and
\* without write_to_disk, and with write_to_disk the file written holds that
\* same value
C13_SurveyVerbatim ==
    (pc = "done" /\ op = "get_survey") =>
       /\ Cardinality(EventsOf("GET")) = 1
       /\ events[1] = Event("GET", base_url \o <<"s","u","r","v","e","y","s","/">>
                                            \o SurveyToken)
       /\ EventsOf("POST") = {} /\ EventsOf("sleep") = {}
       /\ outcome.kind = "return" =>
             /\ outcome.survey = response_data.result
             /\ write_to_disk =>
                   /\ Cardinality(EventsOf("open")) = 1
                   /\ \A i \in EventsOf("open") :
                         files[events[i].at] = JsonFile(response_data.result)
             /\ ~write_to_disk => EventsOf("open") = {}

\* survey B fetched and written
C13_Witness ==
    /\ pc = "done" /\ op = "get_survey" /\ write_to_disk
    /\ response_data.result = "survey B"
    /\ outcome.kind = "return" /\ outcome.survey = "survey B"
    /\ \E i \in EventsOf("open") : files[events[i].at] = JsonFile("survey B")

-----------------------------------------------------------------------------
(* Properties of the project folder, checked under SpecDisk *)

\* base_dir/project_name for the configured output path
SubFolder == StripSeps(path_to_output_files.v) \o <<"/">> \o project_name

\* C14: once setup_output_filename has returned, the folder
\* base_dir/project_name exists, made (that one level only) exactly when it
\* was absent; and writes for different survey names go to different files
C14_ProjectFolder ==
    /\ [](/\ Len(built) > 0 => SubFolder \in dirs
          /\ \A i \in 1..Len(built) : \A j \in 1..Len(built) :
                (built[i].survey_name # built[j].survey_name
                    /\ built[i].instant = built[j].instant) =>
                   built[i].path # built[j].path)
    /\ [][Len(built') > Len(built) =>
             /\ dirs' = dirs \cup {SubFolder}
             /\ \A q \in DOMAIN files :
                   q \in DOMAIN files' /\ (files'[q] # files[q] =>
                                              q = built'[Len(built')].path)]_vars

-----------------------------------------------------------------------------
(* Properties of the client's configuration *)

\* C15: for every base URL string supplied, construction yields a client
\* whose base URL is the supplied one with one '/' added when it lacked it
\* and the supplied one itself when it ended with '/'; no later operation
\* changes the base URL
C15_BaseUrlNormalized ==
    /\ [](/\ pc # "failed"
          /\ base_url # <<>> /\ base_url[Len(base_url)] = "/"
          /\ base_url = IF base_url_arg # <<>>
                           /\ base_url_arg[Len(base_url_arg)] = "/"
                        THEN base_url_arg
                        ELSE base_url_arg \o <<"/">>)
    /\ [][base_url' = base_url]_vars

-----------------------------------------------------------------------------
(* Order of the requests of get_responseexports, checked under SpecExport *)

\* the positions of the GETs to one URL in the log of the running call
GetsTo(url) == {i \in EventsOf("GET") : events[i].at = url}

PollingUrl ==
    base_url \o <<"r","e","s","p","o","n","s","e","e","x","p","o","r","t","s","/">>
             \o export_response_handle.id
SurveyUrl == base_url \o <<"s","u","r","v","e","y","s","/">> \o SurveyToken

\* C16: in a successful run of get_responseexports there is one submission
\* POST, then one or more status GETs, all to base URL + lower-cased endpoint
\* + '/' + the job id the POST returned, then one result-file GET; the table
\* is written (if write_to_disk) only after the result-file GET, and the
\* survey definition is fetched (if get_survey) only after the table write
C16_RequestOrder ==
    (op = "get_responseexports" /\ pc = "done" /\ outcome.kind = "return") =>
       LET status == GetsTo(PollingUrl)
           file == GetsTo(response_status_json.file.v)
           survey == GetsTo(SurveyUrl)
           table == EventsOf("feather")
       IN  /\ EventsOf("POST") = {1}
           /\ export_status_url = PollingUrl
           /\ EventsOf("GET") = status \cup file \cup survey
           /\ Cardinality(status) >= 1 /\ Cardinality(status) = status_gets
           /\ Cardinality(file) = 1
           /\ \A g \in status : 1 < g /\ \A f \in file : g < f
           /\ Cardinality(table) = IF write_to_disk THEN 1 ELSE 0
           /\ \A w \in table : \A f \in file : f < w
           /\ Cardinality(survey) = IF get_survey THEN 1 ELSE 0
           /\ \A v \in survey : /\ \A f \in file : f < v
                                /\ \A w \in table : w < v
                                /\ write_to_disk => table # {}

\* a run that polled twice, wrote the table and fetched the survey
C16_Witness ==
    /\ op = "get_responseexports" /\ pc = "done" /\ outcome.kind = "return"
    /\ write_to_disk /\ get_survey
    /\ Cardinality(GetsTo(PollingUrl)) = 2
    /\ EventsOf("feather") # {} /\ GetsTo(SurveyUrl) # {}

-----------------------------------------------------------------------------
(* The polling loop of get_responseexports, checked under SpecExport *)

\* the position of the last status GET in the log
LastStatusGet ==
    CHOOSE g \in GetsTo(PollingUrl) : \A h \in GetsTo(PollingUrl) : h <= g

\* the log holds every status GET of the call (it records MaxStatusGets)
LogComplete == status_gets < MaxStatusGets

\* the call has left its polling loop
AfterLoop == pc \in {"re_fetch", "re_write", "re_survey", "done"}

\* C17: once a status GET reports percentComplete == 100 there is no further
\* status GET and no further sleep; after every status GET that reports less
\* the client sleeps sleep_ms and adds it to sleep_counter_ms before the next
\* status GET; the result file is fetched from the URL of the last status
\* response received
C17_PollingLoop ==
    /\ [](op = "get_responseexports" =>
          /\ \A z \in EventsOf("sleep") :
                /\ z - 1 \in GetsTo(PollingUrl)
                /\ events[z].at = Pad(sleep_ms, 1)
          /\ \A g \in GetsTo(PollingUrl) :
                IF g # LastStatusGet
                THEN g + 1 \in EventsOf("sleep")
                ELSE LogComplete =>
                        ((g + 1 \in EventsOf("sleep")) <=>
                            response_status_json.percentComplete # 100)
          /\ sleep_counter_ms = Cardinality(EventsOf("sleep")) * sleep_ms
          /\ \A f \in EventsOf("GET") \ (GetsTo(PollingUrl) \cup GetsTo(SurveyUrl)) :
                /\ response_status_json.file.t = "str"
                /\ events[f].at = response_status_json.file.v
                /\ f > LastStatusGet)
    /\ [][(op = "get_responseexports" /\ op' = op
            /\ (response_status_json.percentComplete = 100 \/ AfterLoop)) =>
             /\ status_gets' = status_gets
             /\ response_status_json' = response_status_json
             /\ sleep_counter_ms' = sleep_counter_ms
             /\ GetsTo(PollingUrl)' = GetsTo(PollingUrl)
             /\ EventsOf("sleep")' = EventsOf("sleep")]_vars

\* a job reported at 50 and then at 100: one sleep between the two status
\* GETs, none after the second, then the file GET
C17_Witness ==
    /\ op = "get_responseexports" /\ pc = "done" /\ outcome.kind = "return"
    /\ sleep_ms = 1 /\ sleep_counter_ms = 1
    /\ response_status_json.percentComplete = 100
    /\ Cardinality(GetsTo(PollingUrl)) = 2
    /\ Cardinality(EventsOf("sleep")) = 1
    /\ GetsTo(response_status_json.file.v) # {}

-----------------------------------------------------------------------------
(* Calls that only read, checked under SpecClient *)

-----------------------------------------------------------------------------
(* The client's configuration across calls, checked under SpecClient *)

\* the values the stored output path may have: a value given to __init__, or
\* such a string with the one separator it lacked
StoredPaths ==
    PathArgs \cup {Str(p.v \o <<"/">>) :
                      p \in {q \in PathArgs : q.t = "str" /\ q.v[Len(q.v)] # "/"}}

\* C19: across any sequence of get_survey, get_responseexports and
\* write_df_to_disk calls the token header, project name, base URL and
\* timestamp mode stay as they are; the stored output path changes at most by
\* one trailing separator appended to a path that lacked it, and never grows
\* again; and the path built for given inputs is the one built for them the
\* first time
C19_ConfigurationStable ==
    /\ [][/\ api_token_header' = api_token_header
          /\ project_name' = project_name
          /\ base_url' = base_url
          /\ use_timestamps' = use_timestamps
          /\ \/ path_to_output_files' = path_to_output_files
             \/ /\ path_to_output_files.t = "str"
                /\ path_to_output_files.v[Len(path_to_output_files.v)] # "/"
                /\ path_to_output_files' =
                      Str(path_to_output_files.v \o <<"/">>)]_vars
    /\ [](/\ path_to_output_files \in StoredPaths
          /\ \A i \in 1..Len(built) : \A j \in i..Len(built) :
                (/\ built[j].survey_name = built[i].survey_name
                 /\ built[j].type = built[i].type
                 /\ \/ built[j].instant = built[i].instant
                    \/ /\ ~use_timestamps
                       /\ StrftimeYmd(Instant(built[j].instant))
                             = StrftimeYmd(Instant(built[i].instant))) =>
                   built[j].path = built[i].path)

\* a survey written twice: the stored path has its separator and the second
\* path is the first
C19_Witness ==
    /\ pc = "done" /\ op = "get_survey" /\ write_to_disk /\ calls = 2
    /\ outcome.kind = "return"
    /\ path_to_output_files = Str(<<"o", "/">>)
    /\ Len(built) = 2
    /\ built[1].survey_name = built[2].survey_name
    /\ built[1].type = built[2].type
    /\ built[1].path = built[2].path

=============================================================================
